---- MODULE Spec2Model ----
(***************************************************************************)
(* Model of the ingress controller reconciler                              *)
(* (pkg/operator/controller/ingress/controller.go).                        *)
(*                                                                         *)
(* One Reconcile pass is one atomic action.  The pass reads and writes     *)
(* objects through r.client, at the API server (store); admission lists    *)
(* the sibling ingresscontrollers through r.cache, which lags behind the   *)
(* store until the informer delivers the stored version.  The outcome of   *)
(* every fallible call is an input of the pass (fails); an update that is  *)
(* refused for a conflict is a failed update.                              *)
(***************************************************************************)
EXTENDS Naturals, Sequences, FiniteSets, TLC

VARIABLES
    store,          \* API server: name -> IngressController (or not found)
    cache,          \* r.cache: name -> the last version the informer delivered
    clusterDomain,  \* ingressConfig.Spec.Domain of ingresses.config 'cluster'
    owned,          \* name -> kinds of owned resources that exist
    dns,            \* name -> wildcard DNSRecord: absent, present, deleting
    queued,         \* name -> a reconcile.Request for it is in the work queue
    pass,           \* what the most recent Reconcile call did and returned
    call            \* one call of admit on given arguments, and its result

vars == <<store, cache, clusterDomain, owned, dns, queued, pass, call>>

-----------------------------------------------------------------------------
(* Bounds and value sets *)

\* Most calls that are made to fail in one pass.
MaxFails == 1

Names == {"a", "b"}
NameOrder == <<"a", "b">>
Domains == {"d1", "d2"}
NoDomain == ""

UIDOf(n) == IF n = "a" THEN "uid-a" ELSE "uid-b"

\* The calls of a pass that can return an error.
ReadSteps == {"getIngress", "getDNSConfig", "getInfraConfig", "getIngressConfig"}
AdmitSteps == {"list", "statusUpdate"}
DeleteSteps == {"finalizeLoadBalancerService", "deleteWildcardDNSRecord",
                "currentWildcardDNSRecord", "ensureRouterDeleted", "removeFinalizer"}
EnsureSteps == {"addFinalizer", "regetIngress", "ensureRouterNamespace",
                "ensureRouterDeployment", "ensureLoadBalancerService",
                "ensureWildcardDNSRecord", "ensureInternalIngressControllerService",
                "ensureMetricsIntegration", "ensureRsyslogConfigMap",
                "ensureRouterPodDisruptionBudget", "listEvents",
                "syncIngressControllerStatus"}
Steps == ReadSteps \cup AdmitSteps \cup DeleteSteps \cup EnsureSteps

\* The subsets of S of at most k elements.
RECURSIVE UpTo(_, _)
UpTo(S, k) ==
    IF k = 0 THEN {{}}
    ELSE LET P == UpTo(S, k - 1) IN P \cup {F \cup {x} : F \in P, x \in S}

\* Owned resource kinds other than the wildcard DNSRecord.
Kinds == {"deployment", "lbService", "internalService", "serviceMonitor",
          "rsyslogConfigMap", "pdb"}
\* Kinds whose changes the controller watches (New, lines 60-68).
WatchedKinds == {"deployment", "lbService", "internalService"}

-----------------------------------------------------------------------------
(* The IngressController object *)

NotFound(n) ==
    [exists |-> FALSE, name |-> n, UID |-> "", specDomain |-> NoDomain,
     statusDomain |-> NoDomain, admitted |-> "", message |-> <<>>,
     deletionTimestamp |-> FALSE, finalizer |-> FALSE, observed |-> "unset"]

NewIngress(n, d) ==
    [exists |-> TRUE, name |-> n, UID |-> UIDOf(n), specDomain |-> d,
     statusDomain |-> NoDomain, admitted |-> "", message |-> <<>>,
     deletionTimestamp |-> FALSE, finalizer |-> FALSE, observed |-> "unset"]

\* The status block of an object, as ingressStatusesEqual compares it.
StatusOf(ic) ==
    [domain |-> ic.statusDomain, admitted |-> ic.admitted,
     message |-> ic.message, observed |-> ic.observed]

ingressStatusesEqual(a, b) == StatusOf(a) = StatusOf(b)

\* mergeConditions for the Admitted condition: one condition per type,
\* overwritten in place.
mergeConditions(ic, status, message) ==
    [ic EXCEPT !.admitted = status, !.message = message]

isAdmitted(ic) == ic.admitted = "True"

IsStatusDomainSet(ic) == ic.statusDomain # NoDomain

-----------------------------------------------------------------------------
(* Admission *)

\* Variant: status.domain is assigned on every call.
setDefaultDomainOverwrites(ic, ingressConfigDomain) ==
    [ic EXCEPT !.statusDomain = IF ic.specDomain # NoDomain
                                THEN ic.specDomain
                                ELSE ingressConfigDomain]

setDefaultDomain(ic, ingressConfigDomain) ==
    LET effectiveDomain == IF ic.specDomain # NoDomain
                           THEN ic.specDomain
                           ELSE ingressConfigDomain
    IN  IF ic.statusDomain = NoDomain
        THEN [ic EXCEPT !.statusDomain = effectiveDomain]
        ELSE ic

\* An error is a tuple of strings; <<>> is nil.
validateDomain(ic) ==
    IF ic.statusDomain = NoDomain THEN <<"domain is required">> ELSE <<>>

RECURSIVE validateDomainUniquenessFrom(_, _, _)
validateDomainUniquenessFrom(desired, existing, i) ==
    IF i > Len(existing) THEN <<>>
    ELSE LET current == existing[i]
         IN  IF ~isAdmitted(current)
             THEN validateDomainUniquenessFrom(desired, existing, i + 1)
             ELSE IF desired.UID # current.UID
                     /\ desired.statusDomain = current.statusDomain
                  THEN <<"conflicts with", current.name>>
                  ELSE validateDomainUniquenessFrom(desired, existing, i + 1)

\* Variant: objects that are not admitted conflict too.
RECURSIVE validateDomainUniquenessWithUnadmitted(_, _)
validateDomainUniquenessWithUnadmitted(desired, existing) ==
    IF existing = <<>> THEN <<>>
    ELSE IF desired.UID # Head(existing).UID
            /\ desired.statusDomain = Head(existing).statusDomain
         THEN <<"conflicts with", Head(existing).name>>
         ELSE validateDomainUniquenessWithUnadmitted(desired, Tail(existing))

validateDomainUniqueness(desired, existing) ==
    validateDomainUniquenessFrom(desired, existing, 1)

\* The sequence of the non-nil errors among errs (utilerrors.NewAggregate).
RECURSIVE NewAggregate(_)
NewAggregate(errs) ==
    IF errs = <<>> THEN <<>>
    ELSE IF Head(errs) = <<>> THEN NewAggregate(Tail(errs))
         ELSE <<Head(errs)>> \o NewAggregate(Tail(errs))

\* kind: "nil", "rejection" (reason = the aggregated messages) or "error".
validate(ic, ingresses, fails) ==
    IF "list" \in fails
    THEN [kind |-> "error", reason |-> <<>>]
    ELSE LET agg == NewAggregate(<<validateDomain(ic),
                                   validateDomainUniqueness(ic, ingresses)>>)
         IN  IF agg # <<>>
             THEN [kind |-> "rejection", reason |-> agg]
             ELSE [kind |-> "nil", reason |-> <<>>]

\* admit: the object as updated, whether Status().Update was called and
\* whether it succeeded, and the error returned.
admit(current, ingressConfigDomain, ingresses, fails) ==
    LET updated == setDefaultDomain(current, ingressConfigDomain)
        v == validate(updated, ingresses, fails)
        rejected == mergeConditions(updated, "False", v.reason)
        accepted == mergeConditions(updated, "True", <<>>)
        final == IF v.kind = "rejection" THEN rejected ELSE accepted
        calls == v.kind # "error" /\ ~ingressStatusesEqual(current, final)
        updateOK == "statusUpdate" \notin fails
    IN  [updated |-> final,
         ran |-> {"list"} \cup (IF calls THEN {"statusUpdate"} ELSE {}),
         failed |-> (IF v.kind = "error" THEN {"list"} ELSE {})
                    \cup (IF calls /\ ~updateOK THEN {"statusUpdate"} ELSE {}),
         wrote |-> calls /\ updateOK,
         err |-> IF v.kind = "error" THEN "error"
                 ELSE IF calls /\ ~updateOK THEN "error"
                 ELSE v.kind,
         reason |-> IF v.kind = "rejection" /\ ~(calls /\ ~updateOK)
                    THEN v.reason ELSE <<>>]

-----------------------------------------------------------------------------
(* Deletion *)

\* Variant: the pass goes on although the DNSRecord was found.
WaitForDNSRecordNever(record) == FALSE

\* Lines 353-356: a DNSRecord that was looked up and found ends the pass.
WaitForDNSRecord(record) == record = "found"

\* Variant: the finalizer is never removed.
ShouldRemoveFinalizerNever(errs, ingress) == FALSE

\* Variant: the finalizer is removed whatever the steps returned.
ShouldRemoveFinalizerDespiteErrors(errs, ingress) == ingress.finalizer

\* Lines 363-366: the finalizer is removed when no step failed and it is there.
ShouldRemoveFinalizer(errs, ingress) == errs = {} /\ ingress.finalizer

\* ensureIngressDeleted.  dnsGone: the DNS controller finalizes a DNSRecord
\* whose deletion was requested before this pass looks it up.
ensureIngressDeleted(ingress, fails, ownedNow, dnsNow, dnsGone) ==
    LET lbOK == "finalizeLoadBalancerService" \notin fails
        owned1 == IF lbOK THEN ownedNow \ {"lbService"} ELSE ownedNow
        delOK == "deleteWildcardDNSRecord" \notin fails
        dns1 == IF delOK /\ dnsNow = "present" THEN "deleting" ELSE dnsNow
        dns2 == IF dnsGone /\ dns1 = "deleting" THEN "absent" ELSE dns1
        getOK == "currentWildcardDNSRecord" \notin fails
        record == IF ~getOK THEN "error"
                  ELSE IF dns2 # "absent" THEN "found" ELSE "absent"
        errs3 == (IF lbOK THEN {} ELSE {"finalizeLoadBalancerService"})
                 \cup (IF delOK THEN {} ELSE {"deleteWildcardDNSRecord"})
                 \cup (IF getOK THEN {} ELSE {"currentWildcardDNSRecord"})
        ran3 == {"finalizeLoadBalancerService", "deleteWildcardDNSRecord",
                 "currentWildcardDNSRecord"}
        routerOK == "ensureRouterDeleted" \notin fails
        owned4 == IF routerOK THEN owned1 \ {"deployment"} ELSE owned1
        errs4 == errs3 \cup (IF routerOK THEN {} ELSE {"ensureRouterDeleted"})
        updates == ShouldRemoveFinalizer(errs4, ingress)
        updateOK == "removeFinalizer" \notin fails
    IN  IF WaitForDNSRecord(record)
        THEN \* waiting for wildcard dnsrecord to be deleted: return nil
             [ran |-> ran3, failed |-> errs3, errs |-> {}, record |-> record,
              owned |-> owned1, dns |-> dns2, removed |-> FALSE]
        ELSE [ran |-> ran3 \cup {"ensureRouterDeleted"}
                      \cup (IF updates THEN {"removeFinalizer"} ELSE {}),
              failed |-> errs4 \cup (IF updates /\ ~updateOK
                                     THEN {"removeFinalizer"} ELSE {}),
              errs |-> errs4 \cup (IF updates /\ ~updateOK
                                   THEN {"removeFinalizer"} ELSE {}),
              record |-> record,
              owned |-> owned4, dns |-> dns2,
              removed |-> updates /\ updateOK]

-----------------------------------------------------------------------------
(* Convergence *)

\* What syncIngressControllerStatus derives from the children it is given.
ComputedStatus(lbService, wildcardRecord) ==
    IF lbService /\ wildcardRecord THEN "lb+dns"
    ELSE IF lbService THEN "lb" ELSE "none"

\* An ensure call that succeeds leaves its resource in place.
Ensured(ownedNow, kind, ok) == IF ok THEN ownedNow \cup {kind} ELSE ownedNow

\* Variant: the finalizer is written in every pass.
NeedsFinalizerAlways(ci) == TRUE

\* Variant: the finalizer is never written.
NeedsFinalizerNever(ci) == FALSE

\* Line 381: the finalizer is added when the object read does not have it.
NeedsFinalizer(ci) == ~ci.finalizer

\* Variant: every later call is nested under the load balancer service's.
DependsOnLoadBalancerAll ==
    {"ensureWildcardDNSRecord", "ensureInternalIngressControllerService",
     "ensureMetricsIntegration", "ensureRsyslogConfigMap",
     "ensureRouterPodDisruptionBudget", "listEvents",
     "syncIngressControllerStatus"}

\* Lines 416-423: the calls made only when ensureLoadBalancerService
\* returned no error.
DependsOnLoadBalancer == {"ensureWildcardDNSRecord"}

\* Line 427: the calls made only when
\* ensureInternalIngressControllerService returned no error.
DependsOnInternalService == {"ensureMetricsIntegration"}

\* ensureIngressController.
ensureIngressController(ci, fails, ownedNow, dnsNow) ==
    LET adds == NeedsFinalizer(ci)
        addOK == "addFinalizer" \notin fails
        regetOK == "regetIngress" \notin fails
        ci1 == IF adds THEN [ci EXCEPT !.finalizer = TRUE] ELSE ci
        pre == IF adds THEN {"addFinalizer", "regetIngress"} ELSE {}
        nsOK == "ensureRouterNamespace" \notin fails
        depOK == "ensureRouterDeployment" \notin fails
        lbOK == depOK /\ "ensureLoadBalancerService" \notin fails
        afterLB == IF lbOK THEN {} ELSE DependsOnLoadBalancer
        svcOK == /\ depOK
                 /\ "ensureInternalIngressControllerService" \notin afterLB \cup fails
        skipped == afterLB \cup (IF svcOK THEN {} ELSE DependsOnInternalService)
        OK(s) == depOK /\ s \notin skipped \cup fails
        recOK == lbOK /\ OK("ensureWildcardDNSRecord")
        monOK == svcOK /\ OK("ensureMetricsIntegration")
        cmOK == OK("ensureRsyslogConfigMap")
        pdbOK == OK("ensureRouterPodDisruptionBudget")
        computed == ComputedStatus(lbOK, recOK)
        syncs == /\ "syncIngressControllerStatus" \notin skipped
                 /\ ci1.observed # computed
        syncOK == "syncIngressControllerStatus" \notin fails
        owned1 == Ensured(ownedNow, "deployment", depOK)
        owned2 == Ensured(owned1, "lbService", lbOK)
        owned3 == Ensured(owned2, "internalService", svcOK)
        owned4 == Ensured(owned3, "serviceMonitor", monOK)
        owned5 == Ensured(owned4, "rsyslogConfigMap", cmOK)
        owned6 == Ensured(owned5, "pdb", pdbOK)
        dns1 == IF recOK /\ dnsNow = "absent" THEN "present" ELSE dnsNow
        branches == {"ensureLoadBalancerService", "ensureWildcardDNSRecord",
                     "ensureInternalIngressControllerService",
                     "ensureMetricsIntegration",
                     "ensureRsyslogConfigMap", "ensureRouterPodDisruptionBudget",
                     "listEvents", "syncIngressControllerStatus"} \ skipped
        branchErrs == {s \in branches \ {"syncIngressControllerStatus"} : s \in fails}
                      \cup (IF syncs /\ ~syncOK
                            THEN {"syncIngressControllerStatus"} ELSE {})
        Early(ran, err, added) ==
            [ran |-> ran, failed |-> {err}, errs |-> {err},
             owned |-> ownedNow, dns |-> dnsNow, added |-> added,
             synced |-> FALSE, observed |-> ci.observed]
    IN  IF adds /\ ~addOK THEN Early({"addFinalizer"}, "addFinalizer", FALSE)
        ELSE IF adds /\ ~regetOK THEN Early(pre, "regetIngress", TRUE)
        ELSE IF ~nsOK
        THEN Early(pre \cup {"ensureRouterNamespace"}, "ensureRouterNamespace", adds)
        ELSE IF ~depOK
        THEN Early(pre \cup {"ensureRouterNamespace", "ensureRouterDeployment"},
                   "ensureRouterDeployment", adds)
        ELSE [ran |-> pre \cup {"ensureRouterNamespace", "ensureRouterDeployment"}
                      \cup branches,
              failed |-> branchErrs, errs |-> branchErrs,
              owned |-> owned6, dns |-> dns1, added |-> adds,
              synced |-> syncs /\ syncOK, observed |-> computed]

-----------------------------------------------------------------------------
(* The reconcile driver *)

\* ingresses.Items as the cache lists them.
RECURSIVE ItemsFrom(_)
ItemsFrom(i) ==
    IF i > Len(NameOrder) THEN <<>>
    ELSE (IF cache[NameOrder[i]].exists THEN <<cache[NameOrder[i]]>> ELSE <<>>)
         \o ItemsFrom(i + 1)

Items == ItemsFrom(1)

\* Variant: an error of admit is dropped.
AdmitResultErrorIsDone(err) ==
    IF err = "nil" THEN "requeue" ELSE "done"

\* Variant: a successful admission is not requeued.
AdmitResultNoRequeue(err) ==
    IF err = "error" THEN "error" ELSE "done"

\* Variant: a rejection is returned as an error like any other.
AdmitResultRejectionIsError(err) ==
    IF err = "nil" THEN "requeue" ELSE "error"

\* Lines 166-177: what Reconcile returns for admit's error value.
AdmitResult(err) ==
    IF err = "rejection" THEN "done"
    ELSE IF err = "error" THEN "error"
    ELSE "requeue"

\* Lines 169 and 175: the event recorded for admit's error value.
AdmitEvent(err) ==
    IF err = "rejection" THEN "Warning/Rejected"
    ELSE IF err = "nil" THEN "Normal/Admitted"
    ELSE "none"

NoPass ==
    [rec |-> "", branch |-> "none", ingress |-> NotFound(""), ran |-> {},
     failed |-> {}, errs |-> {}, result |-> "done", event |-> "none",
     reason |-> <<>>, record |-> "none", again |-> FALSE]

\* The pass record of a call that looked up no DNSRecord.
Returned(r, branch, ingress, ran, failed, errs, result, event, reason) ==
    [rec |-> r, branch |-> branch, ingress |-> ingress, ran |-> ran,
     failed |-> failed, errs |-> errs, result |-> result, event |-> event,
     reason |-> reason, record |-> "none", again |-> FALSE]

\* The request is queued again after an error or a requeue (the work queue),
\* and when a watched child of the ingresscontroller changed (New).
Requeued(r, result, ownedAfter, dnsAfter) ==
    \/ result \in {"error", "requeue"}
    \/ (ownedAfter \cap WatchedKinds) # (owned[r] \cap WatchedKinds)
    \/ dnsAfter # dns[r]

\* The calls a pass for this object can make, and the inputs that can
\* change what it does.
\* The writes of the ingresscontroller itself that a pass can make.
RecordWrites == {"statusUpdate", "addFinalizer", "removeFinalizer",
                 "syncIngressControllerStatus"}

\* Variant: an object that was never admitted is admitted before it is
\* deleted.
DeletionRequestedAfterAdmission(ingress) ==
    ingress.deletionTimestamp /\ isAdmitted(ingress)

\* Line 141: the object read has a deletion timestamp.
DeletionRequested(ingress) == ingress.deletionTimestamp

\* Variant: only the read of dns 'cluster' is checked for an error.
ConfigErrorOnlyDNS(fails) == "getDNSConfig" \in fails

\* Lines 151-161: one of the three reads of cluster config failed.
ConfigError(fails) ==
    fails \cap {"getDNSConfig", "getInfraConfig", "getIngressConfig"} # {}

StepsOf(ingress) ==
    IF ~ingress.exists THEN {"getIngress"}
    ELSE IF ingress.deletionTimestamp THEN {"getIngress"} \cup DeleteSteps
    ELSE IF ~isAdmitted(ingress) THEN ReadSteps \cup AdmitSteps
    ELSE IF ingress.finalizer
         THEN ReadSteps \cup (EnsureSteps \ {"addFinalizer", "regetIngress"})
         ELSE ReadSteps \cup EnsureSteps

Relevant(ingress, fails, dnsGone) ==
    /\ fails \subseteq StepsOf(ingress)
    /\ dnsGone => ingress.exists /\ ingress.deletionTimestamp

\* One call of Reconcile for r.  stored is the object in the store when the
\* pass writes it: the object the pass read, or one a user has changed
\* since, and then the first write of the pass is refused as a conflict.
Pass(r, fails, dnsGone, stored) ==
    /\ queued[r]
    /\ Relevant(store[r], fails, dnsGone)
    /\ UNCHANGED call
    /\ LET ingress == store[r]
           cfg == {"getDNSConfig", "getInfraConfig", "getIngressConfig"}
           \* the three reads stop at the first that fails
           cfgRan == IF "getDNSConfig" \in fails THEN {"getDNSConfig"}
                     ELSE IF "getInfraConfig" \in fails
                          THEN {"getDNSConfig", "getInfraConfig"}
                          ELSE cfg
           del == ensureIngressDeleted(ingress, fails, owned[r], dns[r], dnsGone)
           adm == admit(ingress, clusterDomain, Items, fails \ ReadSteps)
           ens == ensureIngressController(ingress, fails, owned[r], dns[r])
       IN
       IF "getIngress" \in fails
       THEN /\ stored = ingress
            /\ pass' = Returned(r, "getError", NotFound(r), {"getIngress"},
                                {"getIngress"}, {"getIngress"}, "error", "none", <<>>)
            /\ queued' = [queued EXCEPT ![r] = TRUE]
            /\ UNCHANGED <<store, cache, clusterDomain, owned, dns>>
       ELSE IF ~ingress.exists
       THEN /\ stored = ingress
            /\ pass' = Returned(r, "notFound", ingress, {"getIngress"}, {}, {},
                                "done", "none", <<>>)
            /\ queued' = [queued EXCEPT ![r] = FALSE]
            /\ UNCHANGED <<store, cache, clusterDomain, owned, dns>>
       ELSE IF DeletionRequested(ingress)
       THEN LET result == IF del.errs # {} THEN "error" ELSE "done"
            IN  /\ stored # ingress => "removeFinalizer" \in del.failed
                /\ pass' = [rec |-> r, branch |-> "delete", ingress |-> ingress,
                            ran |-> {"getIngress"} \cup del.ran,
                            failed |-> del.failed, errs |-> del.errs,
                            result |-> result, event |-> "none", reason |-> <<>>,
                            record |-> del.record, again |-> FALSE]
                /\ store' = [store EXCEPT ![r] = IF del.removed
                                                 THEN NotFound(r)
                                                 ELSE stored]
                /\ owned' = [owned EXCEPT ![r] = del.owned]
                /\ dns' = [dns EXCEPT ![r] = del.dns]
                /\ queued' = [queued EXCEPT ![r] = Requeued(r, result, del.owned, del.dns)]
                /\ UNCHANGED <<cache, clusterDomain>>
       ELSE IF ConfigError(fails)
       THEN /\ stored = ingress
            /\ pass' = Returned(r, "configError", ingress, {"getIngress"} \cup cfgRan,
                                fails \cap cfgRan, fails \cap cfgRan, "error",
                                "none", <<>>)
            /\ queued' = [queued EXCEPT ![r] = TRUE]
            /\ UNCHANGED <<store, cache, clusterDomain, owned, dns>>
       ELSE IF ~isAdmitted(ingress)
       THEN LET result == AdmitResult(adm.err)
            IN  /\ stored # ingress => "statusUpdate" \in adm.failed
                /\ pass' = Returned(r, "admit", ingress,
                                    {"getIngress"} \cup cfgRan \cup adm.ran,
                                    adm.failed \cup (fails \cap cfgRan),
                                    adm.failed \cup (fails \cap cfgRan), result,
                                    AdmitEvent(adm.err), adm.reason)
                /\ store' = [store EXCEPT ![r] = IF adm.wrote
                                                 THEN adm.updated
                                                 ELSE stored]
                /\ queued' = [queued EXCEPT ![r] = Requeued(r, result, owned[r], dns[r])]
                /\ UNCHANGED <<cache, clusterDomain, owned, dns>>
       ELSE LET result == IF ens.errs # {} THEN "error" ELSE "done"
                withFin == IF ens.added
                           THEN [stored EXCEPT !.finalizer = TRUE]
                           ELSE stored
                written == IF ens.synced
                           THEN [withFin EXCEPT !.observed = ens.observed]
                           ELSE withFin
                \* the first write of the object that this pass makes
                first == IF "addFinalizer" \in ens.ran THEN "addFinalizer"
                         ELSE "syncIngressControllerStatus"
                \* the pass before this one converged the object without
                \* error and nothing has changed since
                again == /\ pass.rec = r
                         /\ pass.branch = "ensure"
                         /\ pass.errs = {}
                         /\ ingress = [pass.ingress EXCEPT !.finalizer = TRUE,
                                                           !.observed = "lb+dns"]
            IN  /\ stored # ingress => first \in ens.failed
                /\ pass' = [rec |-> r, branch |-> "ensure", ingress |-> ingress,
                            ran |-> {"getIngress"} \cup cfgRan \cup ens.ran,
                            failed |-> ens.failed \cup (fails \cap cfgRan),
                            errs |-> ens.errs \cup (fails \cap cfgRan),
                            result |-> result, event |-> "none", reason |-> <<>>,
                            record |-> "none", again |-> again]
                /\ store' = [store EXCEPT ![r] = written]
                /\ owned' = [owned EXCEPT ![r] = ens.owned]
                /\ dns' = [dns EXCEPT ![r] = ens.dns]
                /\ queued' = [queued EXCEPT ![r] = Requeued(r, result, ens.owned, ens.dns)]
                /\ UNCHANGED <<cache, clusterDomain>>

\* Reconcile for r when nobody writes the object during the pass.
Reconcile(r, fails, dnsGone) == Pass(r, fails, dnsGone, store[r])

\* Reconcile for r while a user sets spec.domain to d between the read of
\* the object and the first write of it, which the store then refuses.
ReconcileDuringEdit(r, fails, d) ==
    /\ store[r].exists
    /\ store[r].specDomain # d
    /\ Pass(r, fails, FALSE, [store[r] EXCEPT !.specDomain = d])

-----------------------------------------------------------------------------
(* The environment *)

\* The informer delivers the stored version: the cache is updated and the
\* object's request is queued (EnqueueRequestForObject).
CacheSync(r) ==
    /\ cache[r] # store[r]
    /\ cache' = [cache EXCEPT ![r] = store[r]]
    /\ queued' = [queued EXCEPT ![r] = TRUE]
    /\ UNCHANGED <<store, clusterDomain, owned, dns, pass, call>>

\* A user edits spec.domain.
EditSpecDomain(r, d) ==
    /\ store[r].exists
    /\ store[r].specDomain # d
    /\ store' = [store EXCEPT ![r].specDomain = d]
    /\ UNCHANGED <<cache, clusterDomain, owned, dns, queued, pass, call>>

\* The cluster ingress config's domain changes.
SetClusterDomain(d) ==
    /\ clusterDomain # d
    /\ clusterDomain' = d
    /\ UNCHANGED <<store, cache, owned, dns, queued, pass, call>>

\* A user deletes the ingresscontroller: the store sets the deletion
\* timestamp, or removes the object when it has no finalizer.
MarkDeleted(r) ==
    /\ store[r].exists
    /\ ~store[r].deletionTimestamp
    /\ store' = [store EXCEPT ![r] = IF store[r].finalizer
                                     THEN [store[r] EXCEPT !.deletionTimestamp = TRUE]
                                     ELSE NotFound(r)]
    /\ UNCHANGED <<cache, clusterDomain, owned, dns, queued, pass, call>>

\* The DNS controller finalizes a DNSRecord whose deletion was requested;
\* the DNSRecord watch queues its owner.
DNSFinalize(r) ==
    /\ dns[r] = "deleting"
    /\ dns' = [dns EXCEPT ![r] = "absent"]
    /\ queued' = [queued EXCEPT ![r] = TRUE]
    /\ UNCHANGED <<store, cache, clusterDomain, owned, pass, call>>

-----------------------------------------------------------------------------
(* Specifications *)

NoCall ==
    [current |-> NotFound(""), ingressConfigDomain |-> NoDomain,
     ingresses |-> <<>>, fails |-> {}, returned |-> FALSE, err |-> "nil",
     reason |-> <<>>,
     updated |-> NotFound("")]

InitWith(present) ==
    /\ store \in {s \in [Names -> UNION {{NewIngress(n, d) : d \in Domains \cup {NoDomain}}
                                          \cup {NotFound(n)} : n \in Names}] :
                    \A n \in Names : /\ s[n].name = n
                                     /\ s[n].exists <=> n \in present}
    /\ cache = store
    /\ clusterDomain \in Domains \cup {NoDomain}
    /\ owned = [n \in Names |-> {}]
    /\ dns = [n \in Names |-> "absent"]
    /\ queued = [n \in Names |-> n \in present]
    /\ pass = NoPass

\* One ingresscontroller through its whole life; the calls of the deletion
\* protocol fail in every combination.
Init == InitWith({"a"}) /\ clusterDomain = "d1" /\ call = NoCall

Next ==
    \/ \E fails \in SUBSET ({"getIngress"} \cup DeleteSteps), dnsGone \in BOOLEAN :
          Reconcile("a", fails, dnsGone)
    \/ CacheSync("a")
    \/ MarkDeleted("a")
    \/ DNSFinalize("a")

Spec == Init /\ [][Next]_vars

\* The same under fair scheduling: the informer delivers every change, the
\* DNS controller finalizes a DNSRecord whose deletion was requested, and a
\* request that stays in the work queue is in the end served by a pass in
\* which no call fails.
Fairness ==
    /\ WF_vars(Reconcile("a", {}, FALSE))
    /\ WF_vars(CacheSync("a"))
    /\ WF_vars(DNSFinalize("a"))

SpecFair == Init /\ [][Next]_vars /\ Fairness

\* One ingresscontroller that is never deleted; the calls of a pass that
\* reads cluster config and ensures the router fail, at most MaxFails a pass.
EnsureFails ==
    UpTo((ReadSteps \ {"getIngress"}) \cup EnsureSteps, MaxFails)

NextEnsure ==
    \/ \E fails \in EnsureFails : Reconcile("a", fails, FALSE)
    \/ CacheSync("a")

SpecEnsure == Init /\ [][NextEnsure]_vars

\* Two ingresscontrollers whose passes interleave with edits of spec.domain
\* and of the cluster domain; the calls of admit fail in every combination.
InitAdmit ==
    /\ InitWith(Names)
    /\ store["a"].specDomain = "d1"
    /\ clusterDomain = "d1"
    /\ call = NoCall

NextAdmit ==
    \/ \E r \in Names, fails \in SUBSET AdmitSteps, dnsGone \in BOOLEAN :
          Reconcile(r, fails, dnsGone)
    \/ \E r \in Names : CacheSync(r)
    \/ \E d \in Domains \cup {NoDomain} : EditSpecDomain("b", d)
    \/ \E d \in {"d1", NoDomain} : SetClusterDomain(d)
    \/ MarkDeleted("a")
    \/ DNSFinalize("a")

SpecAdmit == InitAdmit /\ [][NextAdmit]_vars

\* One ingresscontroller from creation on, which may have been marked for
\* deletion before it was ever admitted (another finalizer holds it); any
\* one call of a pass fails, and a user may edit the object while a pass
\* is under way.
PassFails == {{}} \cup {{s} : s \in Steps}

InitPass ==
    /\ \E held \in BOOLEAN :
          store = [n \in Names |->
                     IF n = "a"
                     THEN [NewIngress(n, "d1") EXCEPT !.deletionTimestamp = held]
                     ELSE NotFound(n)]
    /\ cache = store
    /\ clusterDomain = "d1"
    /\ owned = [n \in Names |-> {}]
    /\ dns = [n \in Names |-> "absent"]
    /\ queued = [n \in Names |-> n = "a"]
    /\ pass = NoPass
    /\ call = NoCall

NextPass ==
    \/ \E fails \in PassFails, dnsGone \in BOOLEAN :
          Reconcile("a", fails, dnsGone)
    \/ \E w \in RecordWrites, d \in Domains \cup {NoDomain} :
          ReconcileDuringEdit("a", {w}, d)
    \/ CacheSync("a")
    \/ MarkDeleted("a")
    \/ DNSFinalize("a")

SpecPass == InitPass /\ [][NextPass]_vars

\* admit as a function of its arguments: an ingresscontroller that is not
\* admitted, the cluster domain, the ingresscontrollers the cache lists, in
\* any order, and the calls that fail.  A listed object that is admitted has
\* a domain.
Statuses ==
    {<<NoDomain, "">>} \cup {<<NoDomain, "False">>}
    \cup {<<d, a>> : d \in Domains, a \in {"", "False", "True"}}

\* The objects named n with a given spec.domain and any status.
Listed(n, specDomains) ==
    {[NewIngress(n, sd) EXCEPT !.statusDomain = st[1], !.admitted = st[2]] :
        sd \in specDomains, st \in Statuses}

Siblings == UNION {Listed(n, {NoDomain}) : n \in Names}

Listings ==
    {<<>>} \cup {<<x>> : x \in Siblings}
    \cup {l \in {<<x, y>> : x \in Siblings, y \in Siblings} : l[1].name # l[2].name}

InitCall ==
    /\ InitWith({})
    /\ clusterDomain = NoDomain
    /\ \E n \in Names, cfg \in Domains \cup {NoDomain}, ings \in Listings,
          fails \in SUBSET AdmitSteps :
         \E cur \in {x \in Listed(n, Domains \cup {NoDomain}) : ~isAdmitted(x)} :
            call = [NoCall EXCEPT !.current = cur, !.ingressConfigDomain = cfg,
                                  !.ingresses = ings, !.fails = fails]

Admit ==
    /\ ~call.returned
    /\ LET adm == admit(call.current, call.ingressConfigDomain, call.ingresses, call.fails)
       IN  call' = [call EXCEPT !.returned = TRUE, !.err = adm.err,
                                !.reason = adm.reason, !.updated = adm.updated]
    /\ UNCHANGED <<store, cache, clusterDomain, owned, dns, queued, pass>>

SpecCall == InitCall /\ [][Admit]_vars

-----------------------------------------------------------------------------
(* Properties of the deletion protocol (Spec) *)

PriorSteps == {"finalizeLoadBalancerService", "deleteWildcardDNSRecord",
               "currentWildcardDNSRecord", "ensureRouterDeleted"}

HasFinalizer(ic) == ic.exists /\ ic.finalizer

\* C1: every step that takes the finalizer off a stored ingresscontroller is
\* a deletion pass for it whose DNSRecord lookup returned nothing, with the
\* DNSRecord gone; so a pass that finds the DNSRecord leaves the finalizer.
FinalizerOrdering ==
    [][\A r \in Names :
          (HasFinalizer(store[r]) /\ ~HasFinalizer(store'[r]))
          => /\ pass'.rec = r
             /\ pass'.branch = "delete"
             /\ pass'.record = "absent"
             /\ dns'[r] = "absent"]_vars

\* A pass found the DNSRecord, whose deletion is pending, and the finalizer
\* is still on the ingresscontroller.
FinalizerKeptWhileDNSPending ==
    /\ pass.branch = "delete"
    /\ pass.record = "found"
    /\ dns[pass.rec] = "deleting"
    /\ HasFinalizer(store[pass.rec])
    /\ store[pass.rec].deletionTimestamp

\* C3: a deletion pass in which a step failed returns an error that holds
\* every failed step.
DeletionErrorsReturned ==
    (pass.branch = "delete" /\ pass.failed # {})
    => (pass.result = "error" /\ pass.failed \subseteq pass.errs)

\* C4: a deletion pass in which a step before the finalizer removal failed
\* issues no finalizer-removing update and leaves the finalizer in the store.
NoReleaseAfterStepError ==
    [][\A r \in Names :
          (pass'.rec = r /\ pass'.branch = "delete"
           /\ pass'.failed \cap PriorSteps # {})
          => /\ "removeFinalizer" \notin pass'.ran
             /\ HasFinalizer(store[r]) => HasFinalizer(store'[r])]_vars

\* A pass went past the DNSRecord lookup with a failed step, and the
\* finalizer it read is still in the store.
ReleaseSkippedAfterStepError ==
    /\ pass.branch = "delete"
    /\ pass.record # "found"
    /\ pass.failed \cap PriorSteps # {}
    /\ "ensureRouterDeleted" \in pass.ran
    /\ pass.ingress.finalizer
    /\ HasFinalizer(store[pass.rec])

\* C10: a deletion pass that finds the DNSRecord returns no error, does not
\* call ensureRouterDeleted or update the finalizers, and leaves the
\* finalizer and the deployment as they were.
QuiescentWait ==
    [][\A r \in Names :
          (pass'.rec = r /\ pass'.branch = "delete" /\ pass'.record = "found")
          => /\ pass'.result = "done"
             /\ pass'.errs = {}
             /\ "ensureRouterDeleted" \notin pass'.ran
             /\ "removeFinalizer" \notin pass'.ran
             /\ HasFinalizer(store[r]) => HasFinalizer(store'[r])
             /\ "deployment" \in owned[r] => "deployment" \in owned'[r]]_vars

\* A pass found the DNSRecord and returned done; the deployment and the
\* finalizer are in place.
WaitingWithDeployment ==
    /\ pass.branch = "delete"
    /\ pass.record = "found"
    /\ pass.result = "done"
    /\ "deployment" \in owned[pass.rec]
    /\ HasFinalizer(store[pass.rec])

\* The last deletion pass read an object with the finalizer, its DNSRecord
\* lookup returned nothing and ensureRouterDeleted returned no error.
AbsentAndRouterDeleted ==
    /\ pass.branch = "delete"
    /\ pass.ingress.finalizer
    /\ pass.record = "absent"
    /\ "ensureRouterDeleted" \in pass.ran \ pass.failed

\* C14, as stated: after such a pass the finalizer is gone.
ReleasedWhenAbsentAndRouterDeleted ==
    AbsentAndRouterDeleted => ~HasFinalizer(store[pass.rec])

\* C14, amended: after such a pass in which no call at all failed, the
\* pass has issued the finalizer-removing update and the finalizer is gone.
ReleasedWhenNoStepFailed ==
    (AbsentAndRouterDeleted /\ pass.failed = {})
    => /\ "removeFinalizer" \in pass.ran
       /\ ~HasFinalizer(store[pass.rec])

\* A deletion pass in which no call failed found no DNSRecord, deleted
\* the router and removed the finalizer: the object is gone.
ReleasedInOnePass ==
    /\ AbsentAndRouterDeleted
    /\ pass.failed = {}
    /\ "removeFinalizer" \in pass.ran
    /\ ~store[pass.rec].exists
    /\ "deployment" \notin owned[pass.rec]

\* C16: a deletion pass calls ensureRouterDeleted only when its DNSRecord
\* lookup returned without error and found nothing.
RouterDeletedOnlyWhenAbsent ==
    (pass.branch = "delete" /\ "ensureRouterDeleted" \in pass.ran)
    => pass.record = "absent"

\* C11: under fair scheduling, an ingresscontroller that is marked for
\* deletion and has the finalizer is in the end without it.
DeletionCompletes ==
    \A r \in Names :
        (HasFinalizer(store[r]) /\ store[r].deletionTimestamp)
        ~> ~HasFinalizer(store[r])

-----------------------------------------------------------------------------
(* Properties of convergence and of the driver (SpecEnsure) *)

IndependentBranches ==
    {"ensureInternalIngressControllerService", "ensureRsyslogConfigMap",
     "ensureRouterPodDisruptionBudget", "listEvents",
     "syncIngressControllerStatus"}

\* C5: a pass in which ensureRouterDeployment failed still ran the
\* independent branches.
DeploymentErrorDoesNotAbort ==
    (pass.branch = "ensure" /\ "ensureRouterDeployment" \in pass.failed)
    => IndependentBranches \subseteq pass.ran

\* The last pass ensured the deployment, and the call for the load
\* balancer service was the only one that failed.
OnlyLoadBalancerFailed ==
    /\ pass.branch = "ensure"
    /\ "ensureRouterDeployment" \in pass.ran
    /\ pass.failed = {"ensureLoadBalancerService"}

\* C12: a convergence pass in which only ensureLoadBalancerService failed
\* returns that one error, has called
\* ensureInternalIngressControllerService and syncIngressControllerStatus,
\* and leaves the internal service in place.
LoadBalancerErrorIsolated ==
    OnlyLoadBalancerFailed
    => /\ pass.result = "error"
       /\ pass.errs = {"ensureLoadBalancerService"}
       /\ {"ensureInternalIngressControllerService",
           "syncIngressControllerStatus"} \subseteq pass.ran
       /\ "internalService" \in owned[pass.rec]

\* Only the load balancer call failed in the last pass; the internal
\* service exists and the load balancer service does not.
InternalServiceDespiteLoadBalancerError ==
    /\ OnlyLoadBalancerFailed
    /\ "internalService" \in owned[pass.rec]
    /\ "lbService" \notin owned[pass.rec]
    /\ store[pass.rec].observed = "none"

\* The object as a convergence pass without error leaves it.
Converged(ic) == [ic EXCEPT !.finalizer = TRUE, !.observed = "lb+dns"]

ConfigReads == {"getDNSConfig", "getInfraConfig", "getIngressConfig"}

\* C15: a pass that runs admission or convergence has made the three reads
\* of cluster config without error; a pass in which one of them failed
\* returns an error, has run no step of admission, convergence or
\* deletion, and changes neither the object nor any owned resource.
ConfigReadFirst ==
    [][\A r \in Names :
          pass'.rec = r
          => /\ pass'.branch \in {"admit", "ensure"}
                => /\ ConfigReads \subseteq pass'.ran
                   /\ pass'.failed \cap ConfigReads = {}
             /\ pass'.failed \cap ConfigReads # {}
                => /\ pass'.branch = "configError"
                   /\ pass'.result = "error"
                   /\ pass'.ran \cap (AdmitSteps \cup EnsureSteps \cup DeleteSteps) = {}
                   /\ store' = store
                   /\ owned' = owned
                   /\ dns' = dns]_vars

\* The read of infrastructure 'cluster' failed for an object that is not
\* admitted: the pass stopped there, the object is as it was read and the
\* request is queued again.
StoppedAtConfigRead ==
    /\ pass.branch = "configError"
    /\ pass.failed = {"getInfraConfig"}
    /\ pass.ran = {"getIngress", "getDNSConfig", "getInfraConfig"}
    /\ pass.result = "error"
    /\ ~isAdmitted(pass.ingress)
    /\ store[pass.rec] = pass.ingress
    /\ queued[pass.rec]

FinalizerSteps == {"addFinalizer", "regetIngress"}

\* C17: a convergence pass that reads an object without the finalizer
\* updates the finalizers and then reads the object again; when either
\* call fails it returns an error, has made no ensure call and leaves the
\* owned resources alone; and whenever a pass has made an ensure call or
\* changed an owned resource, the stored object has the finalizer.
FinalizerBeforeChildren ==
    [][\A r \in Names :
          (pass'.rec = r /\ pass'.branch = "ensure")
          => /\ ~pass'.ingress.finalizer
                => /\ "addFinalizer" \in pass'.ran
                   /\ "addFinalizer" \notin pass'.failed
                      => "regetIngress" \in pass'.ran
             /\ pass'.failed \cap FinalizerSteps # {}
                => /\ pass'.result = "error"
                   /\ pass'.ran \cap (EnsureSteps \ FinalizerSteps) = {}
                   /\ owned' = owned
                   /\ dns' = dns
             /\ (\/ pass'.ran \cap (EnsureSteps \ FinalizerSteps) # {}
                 \/ owned'[r] # owned[r]
                 \/ dns'[r] # dns[r])
                => HasFinalizer(store'[r])]_vars

\* A pass wrote the finalizer and failed to read the object again: the
\* finalizer is stored, an error was returned and nothing is owned yet.
FinalizerStoredBeforeAnyChild ==
    /\ pass.branch = "ensure"
    /\ ~pass.ingress.finalizer
    /\ pass.failed = {"regetIngress"}
    /\ pass.result = "error"
    /\ HasFinalizer(store[pass.rec])
    /\ owned[pass.rec] = {}
    /\ dns[pass.rec] = "absent"

\* C7: a pass that runs admit runs no step of convergence or deletion; the
\* step that stores Admitted=True changes nothing but the status, and
\* returns a requeue without error; owned resources come into being only in
\* a pass that read an admitted object while the store held Admitted=True.
AdmitThenRequeue ==
    [][\A r \in Names :
          /\ pass'.branch = "admit"
             => pass'.ran \cap (EnsureSteps \cup DeleteSteps) = {}
          /\ (store[r].exists /\ ~isAdmitted(store[r]) /\ isAdmitted(store'[r]))
             => /\ pass'.rec = r /\ pass'.branch = "admit"
                /\ pass'.result = "requeue" /\ pass'.errs = {}
                /\ owned' = owned /\ dns' = dns
                /\ store'[r].finalizer = store[r].finalizer
                /\ store'[r].specDomain = store[r].specDomain
          /\ (owned'[r] # owned[r] /\ ~store[r].deletionTimestamp)
             => /\ pass'.rec = r /\ pass'.branch = "ensure"
                /\ isAdmitted(pass'.ingress)
                /\ isAdmitted(store[r])]_vars

\* The last pass admitted the ingresscontroller: the store holds
\* Admitted=True, and there is neither finalizer nor owned resource yet.
AdmittedBeforeConvergence ==
    /\ pass.branch = "admit"
    /\ pass.event = "Normal/Admitted"
    /\ pass.result = "requeue"
    /\ isAdmitted(store[pass.rec])
    /\ ~store[pass.rec].finalizer
    /\ owned[pass.rec] = {}
    /\ dns[pass.rec] = "absent"

-----------------------------------------------------------------------------
(* Properties of admission (SpecAdmit) *)

\* C2: no two stored ingresscontrollers that are not being deleted are both
\* admitted with the same status.domain.
DomainUniqueness ==
    \A r1 \in Names, r2 \in Names :
        (/\ r1 # r2
         /\ store[r1].exists /\ store[r2].exists
         /\ ~store[r1].deletionTimestamp /\ ~store[r2].deletionTimestamp
         /\ isAdmitted(store[r1]) /\ isAdmitted(store[r2]))
        => store[r1].statusDomain # store[r2].statusDomain

\* C6: no step changes a stored status.domain that is set.
DomainImmutable ==
    [][\A r \in Names :
          (store[r].exists /\ IsStatusDomainSet(store[r]) /\ store'[r].exists)
          => store'[r].statusDomain = store[r].statusDomain]_vars

\* An admission pass ran on an object whose status.domain was set and
\* differed from its spec.domain and from the cluster domain, and wrote
\* its status; the stored status.domain is the one read.
DomainKeptThroughAdmission ==
    /\ pass.branch = "admit"
    /\ IsStatusDomainSet(pass.ingress)
    /\ pass.ingress.specDomain \notin {NoDomain, pass.ingress.statusDomain}
    /\ clusterDomain # pass.ingress.statusDomain
    /\ "statusUpdate" \in pass.ran \ pass.failed
    /\ store[pass.rec].statusDomain = pass.ingress.statusDomain

\* C8: a pass whose admission was rejected recorded the warning event and
\* returned done without error, ran no step of convergence or deletion,
\* and the stored status is Admitted=False with the rejection reason.
RejectionIsTerminal ==
    [][\A r \in Names :
          (pass'.rec = r /\ pass'.branch = "admit" /\ pass'.reason # <<>>)
          => /\ pass'.event = "Warning/Rejected"
             /\ pass'.result = "done"
             /\ pass'.errs = {}
             /\ pass'.ran \cap (EnsureSteps \cup DeleteSteps) = {}
             /\ store'[r].exists
                => /\ store'[r].admitted = "False"
                   /\ store'[r].message = pass'.reason
                   /\ store'[r].finalizer = store[r].finalizer
             /\ owned'[r] = owned[r] /\ dns'[r] = dns[r]]_vars

\* The last pass rejected b for its conflict with a and wrote the status.
RejectedForConflict ==
    /\ pass.rec = "b"
    /\ pass.branch = "admit"
    /\ pass.event = "Warning/Rejected"
    /\ pass.reason = << <<"conflicts with", "a">> >>
    /\ "statusUpdate" \in pass.ran
    /\ pass.result = "done"
    /\ ~queued["b"]
    /\ store["b"].admitted = "False"
    /\ store["b"].message = pass.reason

-----------------------------------------------------------------------------
(* Properties of one pass against a changing object (SpecPass) *)

\* The three writes of the ingresscontroller that Reconcile makes itself.
OwnWrites == {"statusUpdate", "addFinalizer", "removeFinalizer"}

\* The object differs from the one before only in what a user sets.
OnlyUserFields(before, after) ==
    [after EXCEPT !.specDomain = before.specDomain,
                  !.deletionTimestamp = before.deletionTimestamp] = before

\* C18: a pass in which the status update, the finalizer addition or the
\* finalizer removal failed returns an error and is queued again, and the
\* stored object keeps its status and finalizers: it differs from the one
\* before the pass only in what the user changed.
FailedWriteIsRetried ==
    [][\A r \in Names :
          (pass'.rec = r /\ pass'.failed \cap OwnWrites # {})
          => /\ pass'.result = "error"
             /\ pass'.failed \subseteq pass'.errs
             /\ queued'[r]
             /\ store'[r].exists => OnlyUserFields(store[r], store'[r])]_vars

\* A user changed spec.domain while a deletion pass was under way: the
\* update that removes the finalizer was refused, the pass returned the
\* error and is queued, and the store holds the user's object with the
\* finalizer.
RemovalRefusedAfterEdit ==
    /\ pass.branch = "delete"
    /\ pass.failed = {"removeFinalizer"}
    /\ pass.result = "error"
    /\ queued[pass.rec]
    /\ store[pass.rec].specDomain # pass.ingress.specDomain
    /\ OnlyUserFields(pass.ingress, store[pass.rec])
    /\ HasFinalizer(store[pass.rec])

\* C19: a pass that read an object with a deletion timestamp ran only
\* steps of the deletion protocol, returned done or error and recorded
\* no event; it left the status alone, added no finalizer and created
\* no owned resource and no DNSRecord.
DeletionOnlyWhenMarked ==
    [][\A r \in Names :
          (pass'.rec = r /\ pass'.ingress.exists /\ pass'.ingress.deletionTimestamp)
          => /\ pass'.branch = "delete"
             /\ pass'.ran \subseteq {"getIngress"} \cup DeleteSteps
             /\ pass'.result \in {"done", "error"}
             /\ pass'.event = "none"
             /\ store'[r].exists
                => /\ StatusOf(store'[r]) = StatusOf(store[r])
                   /\ store'[r].finalizer => store[r].finalizer
             /\ owned'[r] \subseteq owned[r]
             /\ dns'[r] = "present" => dns[r] = "present"]_vars

\* A deletion pass ran for an object that was never admitted: it returned
\* done, and the object is stored as it was read, without status,
\* finalizer or owned resources.
NeverAdmittedDeleted ==
    /\ pass.branch = "delete"
    /\ pass.ingress.admitted = ""
    /\ pass.ingress.statusDomain = NoDomain
    /\ pass.result = "done"
    /\ store[pass.rec] = pass.ingress
    /\ owned[pass.rec] = {}
    /\ ~queued[pass.rec]

-----------------------------------------------------------------------------
(* Properties of admit as a function (SpecCall) *)

\* The domain admit validates: status.domain when set, else spec.domain,
\* else the cluster domain.
EffectiveDomain(ic, ingressConfigDomain) ==
    IF ic.statusDomain # NoDomain THEN ic.statusDomain
    ELSE IF ic.specDomain # NoDomain THEN ic.specDomain
    ELSE ingressConfigDomain

\* The listed objects that conflict with ic at domain d.
Conflicting(ic, d, ingresses) ==
    {i \in 1..Len(ingresses) :
        /\ isAdmitted(ingresses[i])
        /\ ingresses[i].UID # ic.UID
        /\ ingresses[i].statusDomain = d}

\* Status().Update is called when the status as updated is not the status
\* that was passed in.
StatusChanged == StatusOf(call.updated) # StatusOf(call.current)

\* C9: when the list succeeds, admit rejects with a reason that names a
\* listed object exactly when an admitted object with another UID holds the
\* effective domain, and the object named is the first of those listed; it
\* does not reject otherwise, unless the domain is empty.  The rejection
\* is what admit returns unless the status update it makes fails.
RejectedForOtherAdmitted ==
    call.returned =>
        LET d == EffectiveDomain(call.current, call.ingressConfigDomain)
            c == Conflicting(call.current, d, call.ingresses)
            updateFails == StatusChanged /\ "statusUpdate" \in call.fails
            verdict == IF c # {} \/ d = NoDomain THEN "rejection" ELSE "nil"
        IN  /\ "list" \in call.fails => call.err = "error"
            /\ "list" \notin call.fails =>
                 /\ call.err = IF updateFails THEN "error" ELSE verdict
                 /\ call.updated.admitted = IF verdict = "nil" THEN "True" ELSE "False"
                 /\ c # {} =>
                      \E i \in c :
                         /\ \A j \in c : i <= j
                         /\ call.updated.message = << <<"conflicts with",
                                                       call.ingresses[i].name>> >>
                 /\ (c = {} /\ d = NoDomain)
                    => call.updated.message = << <<"domain is required">> >>
                 /\ call.err = "rejection" => call.reason = call.updated.message

\* admit rejected an object for its conflict with an admitted object of
\* another UID, listed after the object's own copy.
RejectedForAdmittedSibling ==
    /\ call.returned
    /\ call.err = "rejection"
    /\ Len(call.ingresses) = 2
    /\ call.ingresses[1].UID = call.current.UID
    /\ call.ingresses[2].UID # call.current.UID
    /\ isAdmitted(call.ingresses[2])
    /\ call.ingresses[2].statusDomain = call.updated.statusDomain
    /\ call.reason = << <<"conflicts with", call.ingresses[2].name>> >>

-----------------------------------------------------------------------------
(* Properties of repeated admission (SpecAdmit) *)

\* The step is a pass for r that runs admit.
AdmissionPass(r) ==
    /\ ~isAdmitted(store[r])
    /\ pass'.rec = r
    /\ pass'.branch = "admit"
    /\ \E fails \in SUBSET AdmitSteps : Reconcile(r, fails, FALSE)

\* The admitted objects with another UID that the cache lists with ic's
\* status.domain.
ListedRivals(ic) ==
    {n \in Names : /\ cache[n].exists
                   /\ isAdmitted(cache[n])
                   /\ cache[n].UID # ic.UID
                   /\ cache[n].statusDomain = ic.statusDomain}

\* C20: a pass that rejects an object stores the domain it validated with
\* Admitted=False; a pass that reads a stored status.domain which a listed
\* admitted object of another UID holds rejects the object again, whatever
\* its spec.domain, unless the list fails; and an object becomes admitted
\* only with a domain that no listed admitted object of another UID holds.
RejectedDomainSticks ==
    [][\A r \in Names :
          AdmissionPass(r)
          => /\ pass'.reason # <<>>
                => /\ store'[r].admitted = "False"
                   /\ store'[r].statusDomain
                        = EffectiveDomain(store[r], clusterDomain)
             /\ (/\ IsStatusDomainSet(store[r])
                 /\ ListedRivals(store[r]) # {}
                 /\ "list" \notin pass'.failed)
                => /\ ~isAdmitted(store'[r])
                   /\ store'[r].statusDomain = store[r].statusDomain
                   /\ pass'.result = "done" \/ "statusUpdate" \in pass'.failed
                   /\ pass'.result = "done"
                      => /\ pass'.event = "Warning/Rejected"
                         /\ \E n \in ListedRivals(store[r]) :
                               pass'.reason = << <<"conflicts with", n>> >>
             /\ isAdmitted(store'[r]) => ListedRivals(store'[r]) = {}]_vars

\* b, rejected before for its conflict with a and since edited to a
\* spec.domain that nobody holds, was rejected again for the domain it
\* keeps in its status.
RejectedAgainAfterEdit ==
    /\ pass.rec = "b"
    /\ pass.branch = "admit"
    /\ pass.ingress.admitted = "False"
    /\ pass.ingress.statusDomain = "d1"
    /\ pass.ingress.specDomain = "d2"
    /\ pass.event = "Warning/Rejected"
    /\ pass.reason = << <<"conflicts with", "a">> >>
    /\ store["b"].statusDomain = "d1"
    /\ store["b"].specDomain = "d2"
    /\ ~isAdmitted(store["b"])

====
